---- MODULE Spec2Model ----
(***************************************************************************)
(* ndarray-quaternion: the Quaternion value type of src/src/lib.rs.        *)
(*                                                                         *)
(* The components are f32.  An f32 is modelled bit-exactly as a record     *)
(*   [k |-> "num", s |-> sign, m |-> significand, e |-> exponent]          *)
(* of value (-1)^s * m * 2^e, with m in 2^23 .. 2^24-1 for a normal number *)
(* and m < 2^23, e = EMin for zero and the subnormal numbers; +-infinity   *)
(* and NaN are the records of kind "inf" and "nan".  The arithmetic below  *)
(* is IEEE 754 binary32 with round-to-nearest-even, which is what the Rust *)
(* operators +, -, *, / and f32::sqrt compute.                             *)
(***************************************************************************)
EXTENDS Integers, Sequences, FiniteSets, TLC

\* ------------------------------------------------------------------ f32

\* Width of the f32 significand, hidden bit included.
MantBits == 24
\* Exponent of the unit in the last place of the smallest subnormal f32.
EMin == -149
\* Exponent of the unit in the last place of the largest finite f32.
EMax == 104

Hidden == 2^(MantBits - 1)
MantLimit == 2^MantBits

\* Op applied to the values of its arguments: Rust evaluates the arguments of
\* a call once, before the call.
ByValue1(Op(_), a) == CHOOSE r \in {Op(av) : av \in {a}} : TRUE
ByValue2(Op(_, _), a, b) == CHOOSE r \in {Op(av, bv) : av \in {a}, bv \in {b}} : TRUE
ByValue4(Op(_, _, _, _), a, b, c, d) ==
  CHOOSE r \in {Op(av, bv, cv, dv) : av \in {a}, bv \in {b}, cv \in {c}, dv \in {d}} : TRUE

Max(a, b) == IF a >= b THEN a ELSE b
Min(a, b) == IF a <= b THEN a ELSE b

NaN == [k |-> "nan", s |-> 0, m |-> 0, e |-> 0]
Inf(s) == [k |-> "inf", s |-> s, m |-> 0, e |-> 0]
Num(s, m, e) == [k |-> "num", s |-> s, m |-> m, e |-> e]
FZero(s) == Num(s, 0, EMin)

IsNaN(a) == a.k = "nan"
IsInf(a) == a.k = "inf"
IsNum(a) == a.k = "num"
IsZero(a) == a.k = "num" /\ a.m = 0

\* The number of bits of n, 0 <= n < 2^30
BitLen(n) ==
  IF n >= Hidden
    THEN LET h == n \div Hidden IN 23 + (CHOOSE k \in 1..7 : 2^(k - 1) <= h /\ h < 2^k)
    ELSE CHOOSE k \in 0..23 : n < 2^k /\ (k = 0 \/ n >= 2^(k - 1))

\* Round (-1)^s * (m + t) * 2^e to the nearest f32, ties to even, where
\* 0 <= m < 2^30 and st = 1 says that a nonzero t < 1 was cut off below m.
RoundPack(sign, mant, exp, sticky) ==
  ByValue4(LAMBDA s, m, e, st :
    LET len   == BitLen(m)
        shift == Max(len - MantBits, EMin - e)
    IN  IF m = 0 THEN FZero(s)
        ELSE IF shift <= 0
          THEN LET k == Min(MantBits - len, e - EMin)
               IN  Num(s, m * 2^k, e - k)
          ELSE IF shift > 30
            THEN FZero(s)
            ELSE LET q    == m \div 2^shift
                     r    == m % 2^shift
                     half == 2^(shift - 1)
                     up   == r > half \/ (r = half /\ (st = 1 \/ q % 2 = 1))
                     q2   == IF up THEN q + 1 ELSE q
                     m2   == IF q2 = MantLimit THEN Hidden ELSE q2
                     e2   == IF q2 = MantLimit THEN e + shift + 1 ELSE e + shift
                 IN  IF e2 > EMax THEN Inf(s) ELSE Num(s, m2, e2),
    sign, mant, exp, sticky)

\* The f32 of an integer of magnitude below 2^30.
FromInt(n) == IF n < 0 THEN RoundPack(1, -n, 0, 0) ELSE RoundPack(0, n, 0, 0)

\* std::ops::Neg for f32
FNeg(a) == IF IsNaN(a) THEN a ELSE [a EXCEPT !.s = 1 - a.s]

\* f32::abs
FAbs(a) == IF IsNaN(a) THEN a ELSE [a EXCEPT !.s = 0]

\* |a| >= |b| for two finite numbers
MagGe(a, b) == a.e > b.e \/ (a.e = b.e /\ a.m >= b.m)

\* a + b for two finite numbers with |a| >= |b|, neither zero
AddOrdered(a, b) ==
  LET d   == Min(a.e - b.e, 30)
      A   == a.m * 8
      B8  == b.m * 8
      B   == B8 \div 2^d
      st  == IF B8 % 2^d = 0 THEN 0 ELSE 1
  IN  IF a.s = b.s
        THEN RoundPack(a.s, A + B, a.e - 3, st)
        ELSE IF A = B /\ st = 0
          THEN FZero(0)
          ELSE RoundPack(a.s, A - B - st, a.e - 3, st)

\* std::ops::Add for f32
FAdd(x, y) ==
  ByValue2(LAMBDA a, b :
    IF IsNaN(a) \/ IsNaN(b) THEN NaN
    ELSE IF IsInf(a) THEN (IF IsInf(b) /\ a.s # b.s THEN NaN ELSE a)
    ELSE IF IsInf(b) THEN b
    ELSE IF IsZero(a) THEN (IF IsZero(b) THEN FZero(IF a.s = 1 /\ b.s = 1 THEN 1 ELSE 0) ELSE b)
    ELSE IF IsZero(b) THEN a
    ELSE IF MagGe(a, b) THEN AddOrdered(a, b) ELSE AddOrdered(b, a),
    x, y)

\* std::ops::Sub for f32
FSub(a, b) == FAdd(a, FNeg(b))

\* std::ops::Mul for f32
FMul(x, y) ==
  ByValue2(LAMBDA a, b :
    LET s == IF a.s = b.s THEN 0 ELSE 1
    IN  IF IsNaN(a) \/ IsNaN(b) THEN NaN
        ELSE IF IsInf(a) \/ IsInf(b)
          THEN (IF IsZero(a) \/ IsZero(b) THEN NaN ELSE Inf(s))
        ELSE IF IsZero(a) \/ IsZero(b) THEN FZero(s)
        ELSE LET ah  == a.m \div 4096
                 al  == a.m % 4096
                 bh  == b.m \div 4096
                 bl  == b.m % 4096
                 mid == ah * bl + al * bh
                 los == (mid % 4096) * 4096 + al * bl
                 lo  == los % MantLimit
                 hi  == ah * bh + mid \div 4096 + los \div MantLimit
                 k   == Min(24, 29 - BitLen(hi))
                 cut == 2^(24 - k)
             IN  RoundPack(s, hi * 2^k + lo \div cut, a.e + b.e + 24 - k,
                           IF lo % cut = 0 THEN 0 ELSE 1),
    x, y)

\* A nonzero finite number with its significand shifted up to 24 bits
\* (the exponent of a subnormal then lies below EMin).
Normal(a) == LET k == MantBits - BitLen(a.m) IN [a EXCEPT !.m = a.m * 2^k, !.e = a.e - k]

\* n more quotient digits, 7 bits at a time: <<quotient, remainder>>
RECURSIVE DivDigits(_, _, _, _)
DivDigits(r, d, n, acc) ==
  IF n = 0 THEN <<acc, r>>
  ELSE DivDigits((r * 128) % d, d, n - 1, acc * 128 + (r * 128) \div d)

\* std::ops::Div for f32
FDiv(x, y) ==
  ByValue2(LAMBDA a, b :
    LET s == IF a.s = b.s THEN 0 ELSE 1
    IN  IF IsNaN(a) \/ IsNaN(b) THEN NaN
        ELSE IF IsInf(a) THEN (IF IsInf(b) THEN NaN ELSE Inf(s))
        ELSE IF IsInf(b) THEN FZero(s)
        ELSE IF IsZero(b) THEN (IF IsZero(a) THEN NaN ELSE Inf(s))
        ELSE IF IsZero(a) THEN FZero(s)
        ELSE LET na == Normal(a)
                 nb == Normal(b)
                 qr == DivDigits(na.m % nb.m, nb.m, 4, na.m \div nb.m)
             IN  RoundPack(s, qr[1], na.e - nb.e - 28, IF qr[2] = 0 THEN 0 ELSE 1),
    x, y)

\* k more bits of a square root: from <<r, n - r^2>>, r the integer square
\* root of n, to the integer square root r2 of n2 = n * 4^k + low and
\* n2 - r2^2, for 0 <= low < 4^k.
SqrtExtend(rr, k, low) ==
  LET r   == rr[1]
      rem == rr[2] * 4^k + low
      d   == CHOOSE x \in 0..(2^k - 1) :
               /\ (2 * r * 2^k + x) * x <= rem
               /\ (x = 2^k - 1 \/ (2 * r * 2^k + x + 1) * (x + 1) > rem)
  IN  <<r * 2^k + d, rem - (2 * r * 2^k + d) * d>>

\* The integer square root r of n and n - r^2, for n < 2^25
ISqrt(n) ==
  SqrtExtend(SqrtExtend(SqrtExtend(<<0, 0>>, 5, n \div 2^16), 4, (n \div 2^8) % 2^8), 4, n % 2^8)

\* f32::sqrt
FSqrt(x) ==
  ByValue1(LAMBDA a :
    IF IsNaN(a) THEN NaN
    ELSE IF IsZero(a) THEN a
    ELSE IF a.s = 1 THEN NaN
    ELSE IF IsInf(a) THEN a
    ELSE LET na  == Normal(a)
             odd == na.e % 2 # 0
             n   == IF odd THEN na.m * 2 ELSE na.m
             e2  == IF odd THEN na.e - 1 ELSE na.e
             rr  == SqrtExtend(SqrtExtend(SqrtExtend(ISqrt(n), 7, 0), 4, 0), 2, 0)
         IN  RoundPack(0, rr[1], (e2 \div 2) - 13, IF rr[2] = 0 THEN 0 ELSE 1),
    x)

\* PartialEq for f32 (==): NaN equals nothing, -0.0 equals 0.0
FEq(a, b) ==
  /\ ~IsNaN(a) /\ ~IsNaN(b)
  /\ \/ a = b
     \/ IsZero(a) /\ IsZero(b)

\* PartialOrd for f32 (<)
FLt(a, b) ==
  /\ ~IsNaN(a) /\ ~IsNaN(b)
  /\ ~FEq(a, b)
  /\ IF IsInf(a) THEN a.s = 1
     ELSE IF IsInf(b) THEN b.s = 0
     ELSE IF IsZero(a) THEN b.s = 0
     ELSE IF IsZero(b) THEN a.s = 1
     ELSE IF a.s # b.s THEN a.s = 1
     ELSE IF a.s = 0 THEN ~MagGe(a, b) ELSE ~MagGe(b, a)

\* PartialOrd for f32 (>)
FGt(a, b) == FLt(b, a)

\* A decimal literal n/d of the source (n and d integers below 2^24): the
\* compiler rounds it to the nearest f32, as the correctly rounded quotient.
Dec(n, d) == FDiv(FromInt(n), FromInt(d))

\* ------------------------------------------------- f32 constants and libm

Zero == FromInt(0)
One == FromInt(1)
Two == FromInt(2)
Half == Dec(1, 2)

\* f32::EPSILON = 2^-23
EPSILON == Num(0, Hidden, 1 - 2 * MantBits + 1)

\* The f32 nearest to pi, pi/2 and pi/6.
Pi == Num(0, 13176795, -22)
PiHalf == Num(0, 13176795, -23)
PiSixth == Num(0, 8784530, -24)

IsF32(t) == t.k \in {"num", "inf", "nan"}

\* The value of a libm call whose f32 result this model does not compute: an
\* uninterpreted term in the call's f32 arguments.
Term(fn, xs) == [k |-> fn, arg |-> xs]

WithSign(a, s) == [a EXCEPT !.s = s]

\* f32::asin: NaN outside [-1, 1], +-0 at +-0, +-pi/2 at +-1, +-pi/6 at +-1/2;
\* elsewhere the term asin(x).
Asin(x) ==
  IF IsNaN(x) THEN NaN
  ELSE IF IsZero(x) THEN x
  ELSE IF FGt(FAbs(x), One) THEN NaN
  ELSE IF FAbs(x) = One THEN WithSign(PiHalf, x.s)
  ELSE IF FAbs(x) = Half THEN WithSign(PiSixth, x.s)
  ELSE Term("asin", <<x>>)

\* f32::atan2, y.atan2(x): the cases IEEE 754 fixes for a zero y or a zero x;
\* elsewhere the term atan2(y, x).
Atan2(y, x) ==
  IF IsNaN(y) \/ IsNaN(x) THEN NaN
  ELSE IF IsZero(y) THEN (IF x.s = 0 THEN y ELSE WithSign(Pi, y.s))
  ELSE IF IsZero(x) THEN WithSign(PiHalf, y.s)
  ELSE Term("atan2", <<y, x>>)

\* a * t for an f32 a and the result t of a libm call
Times(a, t) == IF IsF32(t) THEN FMul(a, t) ELSE Term("mul", <<a, t>>)

\* ----------------------------------------------------------- ndarray

\* a[i] of an Array1, indexed from 0 as in the source
At(a, i) == a[i + 1]

\* Array1::dot of two arrays of equal length: the products are added one
\* after another onto 0.0, first index first.
RECURSIVE DotFrom(_, _, _, _)
DotFrom(x, y, i, sum) ==
  IF i > Len(x) THEN sum ELSE DotFrom(x, y, i + 1, FAdd(sum, FMul(x[i], y[i])))

dot(lhs, rhs) == ByValue2(LAMBDA x, y : DotFrom(x, y, 1, Zero), lhs, rhs)

\* Array2::dot of a 4-row matrix with an Array1: the dot product of every
\* row with x
mat_dot(lhs, rhs) ==
  ByValue2(LAMBDA M, x : <<dot(M[1], x), dot(M[2], x), dot(M[3], x), dot(M[4], x)>>,
           lhs, rhs)

\* Array1 /= scalar, for an array of length 4
div_assign(lhs, rhs) ==
  ByValue2(LAMBDA a, d : <<FDiv(a[1], d), FDiv(a[2], d), FDiv(a[3], d), FDiv(a[4], d)>>,
           lhs, rhs)

\* PartialEq of two Array1<f32> (the derived PartialEq of Quaternion)
ArrEq(a, b) == Len(a) = Len(b) /\ \A i \in 1..Len(a) : FEq(a[i], b[i])

\* ---------------------------------------------------------- Quaternion
\* A Quaternion is its field q, an Array1<f32> of length 4.

\* the assertion of Quaternion::new
new_ok(a) == Len(a) = 4
new(a) == a

from_wxyz(w, x, y, z) == new(<<w, x, y, z>>)

\* the assertion of Quaternion::from_vector
from_vector_ok(v) == Len(v) = 3
from_vector(v) == new(<<Zero, At(v, 0), At(v, 1), At(v, 2)>>)

scalar(a) == At(a, 0)

vector(a) == SubSeq(a, 2, 4)

sum_of_squares(a) == dot(a, a)

is_unit(a) == FLt(FAbs(FSub(One, sum_of_squares(a))), EPSILON)

norm(a) == FSqrt(sum_of_squares(a))

magnitude(a) == norm(a)

\* normalize without the is_unit() check
normalize_unchecked(self) ==
  ByValue1(LAMBDA a :
    LET n == norm(a)
    IN  IF FGt(n, Zero) THEN div_assign(a, n) ELSE a,
    self)

\* normalize without the norm > 0.0 guard
normalize_unguarded(self) ==
  ByValue1(LAMBDA a :
    IF ~is_unit(a) THEN div_assign(a, norm(a)) ELSE a,
    self)

\* Quaternion::normalize: the receiver's q after the call
normalize(self) ==
  ByValue1(LAMBDA a :
    IF ~is_unit(a)
      THEN LET n == norm(a)
           IN  IF FGt(n, Zero) THEN div_assign(a, n) ELSE a
      ELSE a,
    self)

normalized(a) == normalize(new(a))

unit(a) == normalized(a)

\* conjugate that negates the scalar part as well
conjugate_negated(self) ==
  ByValue1(LAMBDA a : new(<<FNeg(At(a, 0)), FNeg(At(a, 1)), FNeg(At(a, 2)), FNeg(At(a, 3))>>),
           self)

conjugate(self) ==
  ByValue1(LAMBDA a : new(<<At(a, 0), FNeg(At(a, 1)), FNeg(At(a, 2)), FNeg(At(a, 3))>>),
           self)

\* the assertion weakened to s >= 0.0
inverse_ok_ge(a) == ~FLt(sum_of_squares(a), Zero) /\ ~IsNaN(sum_of_squares(a))

\* the assertion of Quaternion::inverse
inverse_ok(a) == FGt(sum_of_squares(a), Zero)

\* inverse that divides by norm() instead of sum_of_squares()
inverse_by_norm(self) ==
  ByValue1(LAMBDA a : div_assign(conjugate(a), norm(a)), self)

inverse(self) ==
  ByValue1(LAMBDA a :
    LET s    == sum_of_squares(a)
        conj == conjugate(a)
    IN  div_assign(conj, s),
    self)

\* q_matrix with the third and fourth rows exchanged
q_matrix_rows(self) ==
  ByValue1(LAMBDA a :
    << <<At(a, 0), FNeg(At(a, 1)), FNeg(At(a, 2)), FNeg(At(a, 3))>>,
       <<At(a, 1), At(a, 0), FNeg(At(a, 3)), At(a, 2)>>,
       <<At(a, 3), FNeg(At(a, 2)), At(a, 1), At(a, 0)>>,
       <<At(a, 2), At(a, 3), At(a, 0), FNeg(At(a, 1))>> >>,
    self)

\* q_matrix with the sign of q[3] in the second row lost
q_matrix_sign(self) ==
  ByValue1(LAMBDA a :
    << <<At(a, 0), FNeg(At(a, 1)), FNeg(At(a, 2)), FNeg(At(a, 3))>>,
       <<At(a, 1), At(a, 0), At(a, 3), At(a, 2)>>,
       <<At(a, 2), At(a, 3), At(a, 0), FNeg(At(a, 1))>>,
       <<At(a, 3), FNeg(At(a, 2)), At(a, 1), At(a, 0)>> >>,
    self)

q_matrix(self) ==
  ByValue1(LAMBDA a :
    << <<At(a, 0), FNeg(At(a, 1)), FNeg(At(a, 2)), FNeg(At(a, 3))>>,
       <<At(a, 1), At(a, 0), FNeg(At(a, 3)), At(a, 2)>>,
       <<At(a, 2), At(a, 3), At(a, 0), FNeg(At(a, 1))>>,
       <<At(a, 3), FNeg(At(a, 2)), At(a, 1), At(a, 0)>> >>,
    self)

\* impl Mul for &Quaternion
mul_ref(a, rhs) == new(mat_dot(q_matrix(a), rhs))

\* impl Mul for Quaternion
mul_val(a, rhs) == new(mat_dot(q_matrix(a), rhs))

\* to_vector that takes elements 0..2
to_vector_first(self) == ByValue1(LAMBDA a : <<At(a, 0), At(a, 1), At(a, 2)>>, self)

to_vector(self) == ByValue1(LAMBDA a : <<At(a, 1), At(a, 2), At(a, 3)>>, self)

\* rotate_vector with the conjugate on the left
rotate_vector_swapped(a, v) ==
  LET qv      == from_vector(v)
      rotated == mul_val(mul_ref(conjugate(a), qv), a)
  IN  to_vector(rotated)

rotate_vector(a, v) ==
  LET qv      == from_vector(v)
      rotated == mul_val(mul_ref(a, qv), conjugate(a))
  IN  to_vector(rotated)

\* Quaternion::taitbryan: <<tb0, tb1, tb2>>
taitbryan(self) ==
  ByValue1(LAMBDA a :
  LET tb1 == Times(Two, Asin(FSub(FMul(At(a, 0), At(a, 2)), FMul(At(a, 1), At(a, 3)))))
      tb0 == Atan2(FMul(Two, FAdd(FMul(At(a, 2), At(a, 3)), FMul(At(a, 0), At(a, 1)))),
                   FSub(One, FMul(Two, FAdd(FMul(At(a, 1), At(a, 1)), FMul(At(a, 2), At(a, 2))))))
      tb2 == Atan2(FMul(Two, FAdd(FMul(At(a, 1), At(a, 2)), FMul(At(a, 0), At(a, 3)))),
                   FSub(One, FMul(Two, FAdd(FMul(At(a, 2), At(a, 2)), FMul(At(a, 3), At(a, 3))))))
  IN  <<tb0, tb1, tb2>>,
  self)

\* ------------------------------------------------------------- inputs

\* The most calls of normalize() in one run.
MaxNormalize == 2
\* The largest w of the integer quaternions [w, -w, 3, -2] and the largest a
\* of the integer vectors [a, 2, -1].
MaxInt == 1

\* The quaternions of the tests of lib.rs, the identity, zero, a unit
\* quaternion with w*y - x*z = 1/2, one whose sum of squares overflows and
\* one whose sum of squares underflows to 0.
TestQuats ==
  { from_wxyz(One, Zero, Zero, Zero),
    from_wxyz(Zero, Zero, Zero, Zero),
    from_wxyz(Half, Half, Half, Half),
    from_wxyz(One, Half, Half, Half),
    from_wxyz(Dec(-754, 1000), Dec(-18, 100), Dec(-327, 1000), Dec(54, 100)),
    from_wxyz(Half, Half, Half, FNeg(Half)),
    from_wxyz(Num(0, Hidden, 41), Zero, Zero, Zero),
    from_wxyz(Num(0, Hidden, -103), Num(0, Hidden, -103), Zero, Zero) }

IntQuats ==
  { from_wxyz(FromInt(w), FromInt(-w), FromInt(3), FromInt(-2)) : w \in 0..MaxInt }

Quats == TestQuats \cup IntQuats

\* The vector of tests::rotate and integer vectors.
Vecs ==
  { <<Dec(-7135, 1000), Dec(-297, 1000), Dec(637, 100)>> }
  \cup { <<FromInt(a), FromInt(2), FromInt(-1)>> : a \in 0..MaxInt }

\* ---------------------------------------------------------- the calls

VARIABLES
  q,       \* the receiver's field q
  op,      \* the method called last
  args,    \* its arguments
  out,     \* what it returned: [tag, val], or that it panicked
  before,  \* the receiver's q when it was called
  streak,  \* how many normalize() calls were made directly one after another
  nnorm    \* how many normalize() calls were made in all

vars == <<q, op, args, out, before, streak, nnorm>>

Ret(tag, val) == [tag |-> tag, val |-> val]
Panicked == Ret("panic", <<>>)
Nothing == Ret("unit", <<>>)

Init ==
  /\ q \in Quats
  /\ op = "new"
  /\ args = <<>>
  /\ out = Nothing
  /\ before = q
  /\ streak = 0
  /\ nnorm = 0

\* a call of a &self method that does not change the receiver
Call(name, as, ret) ==
  /\ op' = name
  /\ args' = as
  /\ out' = ret
  /\ before' = q
  /\ streak' = 0
  /\ UNCHANGED <<q, nnorm>>

MulRef == \E rhs \in Quats : Call("mul_ref", <<rhs>>, Ret("quat", mul_ref(q, rhs)))

MulVal == \E rhs \in Quats : Call("mul_val", <<rhs>>, Ret("quat", mul_val(q, rhs)))

Normalize ==
  /\ nnorm < MaxNormalize
  /\ q' = normalize(q)
  /\ op' = "normalize"
  /\ args' = <<>>
  /\ out' = Nothing
  /\ before' = q
  /\ streak' = streak + 1
  /\ nnorm' = nnorm + 1

Normalized == Call("normalized", <<>>, Ret("quat", normalized(q)))

Unit == Call("unit", <<>>, Ret("quat", unit(q)))

IsUnit == Call("is_unit", <<>>, Ret("bool", is_unit(q)))

Norm == Call("norm", <<>>, Ret("f32", norm(q)))

Conjugate == Call("conjugate", <<>>, Ret("quat", conjugate(q)))

Inverse ==
  Call("inverse", <<>>, IF inverse_ok(q) THEN Ret("quat", inverse(q)) ELSE Panicked)

RotateVector ==
  \E v \in Vecs :
    Call("rotate_vector", <<v>>,
         IF from_vector_ok(v) THEN Ret("vec", rotate_vector(q, v)) ELSE Panicked)

TaitBryan == Call("taitbryan", <<>>, Ret("angles", taitbryan(q)))

Next ==
  \/ MulRef
  \/ MulVal
  \/ Normalize
  \/ Normalized
  \/ Unit
  \/ IsUnit
  \/ Norm
  \/ Conjugate
  \/ Inverse
  \/ RotateVector
  \/ TaitBryan

Spec == Init /\ [][Next]_vars

\* ------------------------------------------------------------- claims

IsMul == op \in {"mul_ref", "mul_val"}

\* t1 + t2 + t3 + t4, added from the left
Sum4(t1, t2, t3, t4) == FAdd(FAdd(FAdd(t1, t2), t3), t4)

\* f is an integer of magnitude at most n
IsIntUpTo(f, n) ==
  /\ IsNum(f)
  /\ f.m = 0 \/ f.e >= 0 \/ (f.e > -MantBits /\ f.m % 2^(-f.e) = 0)
  /\ ~FGt(FAbs(f), FromInt(n))

\* every component of the array a is an integer of magnitude at most n
AllIntUpTo(a, n) == \A i \in 1..Len(a) : IsIntUpTo(a[i], n)

\* Q_L(a) . b, with Q_L(a) written out row by row as in the claim
QLProduct(a, b) ==
  LET w1 == a[1]  x1 == a[2]  y1 == a[3]  z1 == a[4]
      w2 == b[1]  x2 == b[2]  y2 == b[3]  z2 == b[4]
  IN  << Sum4(FMul(w1, w2), FMul(FNeg(x1), x2), FMul(FNeg(y1), y2), FMul(FNeg(z1), z2)),
         Sum4(FMul(x1, w2), FMul(w1, x2), FMul(FNeg(z1), y2), FMul(y1, z2)),
         Sum4(FMul(y1, w2), FMul(z1, x2), FMul(w1, y2), FMul(FNeg(x1), z2)),
         Sum4(FMul(z1, w2), FMul(FNeg(y1), x2), FMul(x1, y2), FMul(w1, z2)) >>

\* The Hamilton product, each component evaluated from the left as written
HamiltonProduct(a, b) ==
  LET w1 == a[1]  x1 == a[2]  y1 == a[3]  z1 == a[4]
      w2 == b[1]  x2 == b[2]  y2 == b[3]  z2 == b[4]
  IN  << FSub(FSub(FSub(FMul(w1, w2), FMul(x1, x2)), FMul(y1, y2)), FMul(z1, z2)),
         FSub(FAdd(FAdd(FMul(w1, x2), FMul(x1, w2)), FMul(y1, z2)), FMul(z1, y2)),
         FAdd(FAdd(FSub(FMul(w1, y2), FMul(x1, z2)), FMul(y1, w2)), FMul(z1, x2)),
         FAdd(FSub(FAdd(FMul(w1, z2), FMul(x1, y2)), FMul(y1, x2)), FMul(z1, w2)) >>

SpecPitch(a) == Asin(FMul(Two, FSub(FMul(a[1], a[3]), FMul(a[2], a[4]))))

SpecYaw(a) ==
  Atan2(FMul(Two, FAdd(FMul(a[3], a[4]), FMul(a[1], a[2]))),
        FSub(One, FMul(Two, FAdd(FMul(a[2], a[2]), FMul(a[3], a[3])))))

SpecRoll(a) ==
  Atan2(FMul(Two, FAdd(FMul(a[2], a[3]), FMul(a[1], a[4]))),
        FSub(One, FMul(Two, FAdd(FMul(a[3], a[3]), FMul(a[4], a[4])))))

\* C2: taitbryan() returns [yaw, pitch, roll] with pitch = asin(2*(w*y - x*z)),
\* yaw = atan2(2*(y*z + w*x), 1 - 2*(x^2 + y^2)) and
\* roll = atan2(2*(x*y + w*z), 1 - 2*(y^2 + z^2)).
C2_TaitBryanFormulas ==
  op = "taitbryan" =>
    out.val = <<SpecYaw(before), SpecPitch(before), SpecRoll(before)>>

\* C2: for the unit quaternion [1/2, 1/2, 1/2, -1/2], w*y - x*z = 1/2: the
\* claim's pitch is asin(1) = pi/2, the code returns 2*asin(1/2) = pi/3.
C2_Witness ==
  /\ op = "taitbryan"
  /\ before = <<Half, Half, Half, FNeg(Half)>>
  /\ SpecPitch(before) = PiHalf
  /\ out.val[2] = FMul(Two, PiSixth)
  /\ FLt(out.val[2], SpecPitch(before))

\* Quaternions and vectors whose components are integers of magnitude <= n
IntQuatsUpTo(n) == {a \in Quats : AllIntUpTo(a, n)}

\* C3: (a*b)*c equals a*(b*c) component for component, for all quaternions
\* a, b, c (the original claim; a and b are the operands of the last product).
C3_Associative ==
  IsMul =>
    \A c \in Quats :
      ArrEq(mul_val(out.val, c), mul_val(before, mul_val(args[1], c)))

\* C3, amended: (a*b)*c equals a*(b*c) component for component whenever all
\* components of a, b and c are integers of magnitude at most 64, where no
\* operation rounds; and a*b differs from b*a for a = [0,0,3,-2],
\* b = [1,-1,3,-2].
C3_AssociativeOnExactInputs ==
  IsMul =>
    /\ (AllIntUpTo(before, 64) /\ AllIntUpTo(args[1], 64)) =>
          \A c \in IntQuatsUpTo(64) :
            ArrEq(mul_val(out.val, c), mul_val(before, mul_val(args[1], c)))
    /\ (/\ before = from_wxyz(Zero, Zero, FromInt(3), FromInt(-2))
        /\ args[1] = from_wxyz(One, FromInt(-1), FromInt(3), FromInt(-2))) =>
          ~ArrEq(out.val, mul_val(args[1], before))

C3_Witness ==
  /\ IsMul
  /\ before = from_wxyz(Zero, Zero, FromInt(3), FromInt(-2))
  /\ args[1] = from_wxyz(One, FromInt(-1), FromInt(3), FromInt(-2))
  /\ ~ArrEq(out.val, mul_val(args[1], before))
  /\ \E c \in IntQuatsUpTo(64) :
        /\ ~ArrEq(mul_val(out.val, c), out.val)
        /\ ~ArrEq(mul_val(out.val, c), mul_val(c, out.val))
        /\ ArrEq(mul_val(out.val, c), mul_val(before, mul_val(args[1], c)))

\* [w, -x, -y, -z]
Conj(a) == <<a[1], FNeg(a[2]), FNeg(a[3]), FNeg(a[4])>>

\* w*w + x*x + y*y + z*z, summed from 0.0 in this order
SumSq(a) ==
  FAdd(FAdd(FAdd(FAdd(Zero, FMul(a[1], a[1])), FMul(a[2], a[2])), FMul(a[3], a[3])),
       FMul(a[4], a[4]))

Identity == <<One, Zero, Zero, Zero>>

IsNormal(f) == IsNum(f) /\ f.m >= Hidden

\* every component of a within tol of the same component of b
Within(a, b, tol) ==
  \A i \in 1..Len(a) : ~FGt(FAbs(FSub(a[i], b[i])), tol)

AllFinite(a) == \A i \in 1..Len(a) : IsNum(a[i])

\* C4: for q with sum_of_squares(q) > 0, inverse(q) is conjugate(q) with every
\* component divided by sum_of_squares(q), q * inverse(q) is exactly
\* [1,0,0,0], and inverse(q) = conjugate(q) when q.is_unit() (the original
\* claim).
C4_InverseExact ==
  (op = "inverse" /\ FGt(SumSq(before), Zero)) =>
    /\ out.tag = "quat"
    /\ \A i \in 1..4 : out.val[i] = FDiv(Conj(before)[i], SumSq(before))
    /\ ArrEq(mul_val(before, out.val), Identity)
    /\ is_unit(before) => ArrEq(out.val, Conj(before))

\* C4, amended: for q with sum_of_squares(q) > 0, inverse(q) is conjugate(q)
\* with every component divided by sum_of_squares(q); when sum_of_squares(q)
\* is a normal finite f32, every component of q * inverse(q) is within 2^-18
\* of that of [1,0,0,0]; and inverse(q) = conjugate(q) when
\* sum_of_squares(q) is exactly 1.0.
C4_InverseWithinTolerance ==
  (op = "inverse" /\ FGt(SumSq(before), Zero)) =>
    /\ out.tag = "quat"
    /\ \A i \in 1..4 : out.val[i] = FDiv(Conj(before)[i], SumSq(before))
    /\ IsNormal(SumSq(before)) =>
          Within(mul_val(before, out.val), Identity, Num(0, Hidden, -41))
    /\ FEq(SumSq(before), One) => ArrEq(out.val, Conj(before))

\* inverse() of a quaternion whose sum of squares is neither 1 nor a power of
\* two, with q * inverse(q) close to but different from [1,0,0,0]
C4_Witness ==
  /\ op = "inverse"
  /\ out.tag = "quat"
  /\ IsNormal(SumSq(before))
  /\ ~FEq(SumSq(before), One)
  /\ ~ArrEq(out.val, Conj(before))
  /\ ~ArrEq(mul_val(before, out.val), Identity)
  /\ Within(mul_val(before, out.val), Identity, Num(0, Hidden, -41))

\* the receiver after one more normalize() would be left as it is
Settled(a) == is_unit(a) \/ FEq(norm(a), One) \/ ~FGt(norm(a), Zero)

\* C5: a normalize() directly after a normalize() leaves all four components
\* exactly as they were, and normalized()/unit() of a normalized()/unit()
\* result is that result (the original claim).
C5_NormalizeIdempotent ==
  /\ streak >= 2 => ArrEq(q, before)
  /\ op \in {"normalized", "unit"} => ArrEq(normalized(out.val), out.val)

\* C5, amended: a normalize() directly after a normalize() leaves all four
\* components exactly as they were whenever the first call left a quaternion
\* for which is_unit() holds or whose norm() is 1.0 or is not > 0; the same
\* for normalized()/unit().
C5_NormalizeIdempotentWhenSettled ==
  /\ (streak >= 2 /\ Settled(before)) => ArrEq(q, before)
  /\ (op \in {"normalized", "unit"} /\ Settled(out.val)) =>
        /\ ArrEq(normalized(out.val), out.val)
        /\ ArrEq(unit(out.val), out.val)

\* a second normalize() in a row, of a quaternion the first call had to
\* divide and left with is_unit() true and a norm() below 1.0
C5_Witness ==
  /\ streak >= 2
  /\ is_unit(before)
  /\ ~FEq(norm(before), One)
  /\ FGt(norm(before), Zero)
  /\ ArrEq(q, before)

ZeroQuat == <<Zero, Zero, Zero, Zero>>

\* |1 - (w*w + x*x + y*y + z*z)| < EPSILON
UnitTest(a) == FLt(FAbs(FSub(One, SumSq(a))), EPSILON)

\* C6: normalize() of [0,0,0,0] raises no error and leaves [0,0,0,0]; in
\* general normalize() changes the components only when is_unit() is false
\* and norm() > 0, and then divides every component by norm().
C6_NormalizeGuards ==
  op = "normalize" =>
    /\ out = Nothing
    /\ before = ZeroQuat => q = ZeroQuat
    /\ IF ~UnitTest(before) /\ FGt(FSqrt(SumSq(before)), Zero)
         THEN \A i \in 1..4 : q[i] = FDiv(before[i], FSqrt(SumSq(before)))
         ELSE q = before

\* normalize() called on [0,0,0,0], which fails is_unit() and has norm 0
C6_Witness ==
  /\ op = "normalize"
  /\ before = ZeroQuat
  /\ ~UnitTest(before)
  /\ FEq(FSqrt(SumSq(before)), Zero)
  /\ q = ZeroQuat
  /\ out = Nothing

\* C7: inverse() of [0,0,0,0] fails with a fatal assertion and returns no
\* quaternion, the receiver is unchanged, and inverse() fails exactly when
\* sum_of_squares() > 0 does not hold.
C7_InversePanicsIffNotPositive ==
  op = "inverse" =>
    /\ q = before
    /\ out = Panicked <=> ~FGt(SumSq(before), Zero)
    /\ out # Panicked => out.tag = "quat"
    /\ before = ZeroQuat => out = Panicked

\* inverse() called on [0,0,0,0]
C7_Witness ==
  /\ op = "inverse"
  /\ before = ZeroQuat
  /\ out = Panicked
  /\ q = ZeroQuat

\* C8: conjugate(q) is [w,-x,-y,-z], q is not modified, and
\* conjugate(conjugate(q)) == q under component-wise equality.
C8_ConjugateInvolution ==
  op = "conjugate" =>
    /\ out.tag = "quat"
    /\ out.val = <<before[1], FNeg(before[2]), FNeg(before[3]), FNeg(before[4])>>
    /\ q = before
    /\ ArrEq(conjugate(out.val), before)

\* conjugate() of a quaternion with a nonzero scalar and a nonzero vector part
C8_Witness ==
  /\ op = "conjugate"
  /\ ~IsZero(before[1])
  /\ \E i \in 2..4 : ~IsZero(before[i])
  /\ ~ArrEq(out.val, before)
  /\ ArrEq(conjugate(out.val), before)

\* (q * [0, v]) * conjugate(q), products taken left to right
Sandwich(a, v) ==
  QLProduct(QLProduct(a, <<Zero, v[1], v[2], v[3]>>), Conj(a))

\* C9: rotate_vector(v) is the vector part of (q * [0,v0,v1,v2]) * conjugate(q)
\* with the products taken left to right; q is not modified and is not
\* normalized or checked for unit norm.
C9_RotateIsSandwich ==
  op = "rotate_vector" =>
    /\ out.tag = "vec"
    /\ Len(out.val) = 3
    /\ \A i \in 1..3 : FEq(out.val[i], Sandwich(before, args[1])[i + 1])
    /\ q = before

\* the rotation by the quaternion normalized first
RotateByUnit(a, v) ==
  LET u == normalized(a)
  IN  to_vector(mul_val(mul_ref(u, from_vector(v)), conjugate(u)))

\* rotate_vector on a quaternion that is not of unit length, with a result
\* that differs from the vector and from the rotation by the unit quaternion
C9_Witness ==
  /\ op = "rotate_vector"
  /\ out.tag = "vec"
  /\ ~is_unit(before)
  /\ AllFinite(out.val)
  /\ out.val # args[1]
  /\ out.val # RotateByUnit(before, args[1])

\* v0*v0 + v1*v1 + v2*v2
SqLen(v) == FAdd(FAdd(FAdd(Zero, FMul(v[1], v[1])), FMul(v[2], v[2])), FMul(v[3], v[3]))

AllIntVecUpTo(v, n) == \A i \in 1..3 : IsIntUpTo(v[i], n)

\* C10: the scalar part of (q * [0,v]) * conjugate(q) is 0 and the squared
\* length of rotate_vector(v) is sum_of_squares(q)^2 times the squared length
\* of v, for every q and v (the original claim).
C10_ScalarZeroAndScaled ==
  op = "rotate_vector" =>
    /\ FEq(Sandwich(before, args[1])[1], Zero)
    /\ FEq(SqLen(out.val), FMul(FMul(SumSq(before), SumSq(before)), SqLen(args[1])))

\* C10, amended: when all components of q and v are integers of magnitude at
\* most 8, where no operation rounds, the scalar part of
\* (q * [0,v]) * conjugate(q) is 0 and the squared length of rotate_vector(v)
\* is sum_of_squares(q)^2 times the squared length of v; so a q with
\* sum_of_squares 1 preserves the length of v.
C10_ScalarZeroAndScaledOnExactInputs ==
  (op = "rotate_vector" /\ AllIntUpTo(before, 8) /\ AllIntVecUpTo(args[1], 8)) =>
    /\ FEq(Sandwich(before, args[1])[1], Zero)
    /\ FEq(SqLen(out.val), FMul(FMul(SumSq(before), SumSq(before)), SqLen(args[1])))
    /\ FEq(SumSq(before), One) => FEq(SqLen(out.val), SqLen(args[1]))

\* rotate_vector of an integer vector by an integer quaternion of sum of
\* squares 15: the result is 15 times as long as the vector
C10_Witness ==
  /\ op = "rotate_vector"
  /\ AllIntUpTo(before, 8) /\ AllIntVecUpTo(args[1], 8)
  /\ SumSq(before) = FromInt(15)
  /\ SqLen(args[1]) = FromInt(6)
  /\ SqLen(out.val) = FromInt(1350)
  /\ out.val # args[1]

====
